---- MODULE Spec2Model ----
(***************************************************************************)
(* Sudoku solver of src/Sudoku_Solver/sdk_board.py: Tile, Board, the two   *)
(* propagation tactics (naked single, hidden single) and the recursive     *)
(* guess-and-check search with full-grid snapshot/restore.                 *)
(*                                                                         *)
(* The board is modelled at side length N = ROOT*ROOT = 4.  Symbols are    *)
(* one-character strings, a row of as_list() is a sequence of them.        *)
(* Python iterates a set in an order the program does not control          *)
(* (string hashing is randomised), so every loop over a set picks its      *)
(* next element nondeterministically.                                      *)
(***************************************************************************)
EXTENDS Integers, Sequences, FiniteSets, TLC

\* ---------------------------------------------------------------------------
\* sdk_config (imported by sdk_board.py, line 14-15)
\* ---------------------------------------------------------------------------
ROOT == 2

NROWS == ROOT * ROOT

NCOLS == ROOT * ROOT

CHOICES == {"1", "2", "3", "4"}

UNKNOWN == "."

\* a value that is neither UNKNOWN nor in CHOICES (malformed input)
BadValues == {"x"}

\* ---------------------------------------------------------------------------
\* bounds of the model
\* ---------------------------------------------------------------------------
\* the puzzles loaded with set_tiles are the seed puzzles below with at most
\* MaxErased of their cells erased
MaxErased == 2

\* ---------------------------------------------------------------------------
\* Tile
\* ---------------------------------------------------------------------------
\* notify_all is called once by every set_value
SetValueNotes == 1

\* Tile.set_value: a symbol fixes the candidates to {value}, anything else
\* makes the tile UNKNOWN with the full alphabet as candidates
set_value(tile, value) ==
    IF value \in CHOICES
    THEN [value |-> value, candidates |-> {value}]
    ELSE [value |-> UNKNOWN, candidates |-> CHOICES]

\* Tile.__init__(row, col): value defaults to UNKNOWN
NewTile == set_value([value |-> UNKNOWN, candidates |-> {}], UNKNOWN)

\* remove_candidate without the collapse to the last remaining candidate
remove_candidate_no_collapse(tile, used_values) ==
    LET new_candidates == tile.candidates \ used_values IN
    IF new_candidates = tile.candidates
    THEN [tile |-> tile, ret |-> FALSE, notes |-> 0]
    ELSE [tile  |-> [tile EXCEPT !.candidates = new_candidates],
          ret   |-> TRUE,
          notes |-> 1]

\* Tile.remove_candidate: the new tile, the returned boolean and the number
\* of notify_all calls made
remove_candidate(tile, used_values) ==
    LET new_candidates == tile.candidates \ used_values IN
    IF new_candidates = tile.candidates
    THEN [tile |-> tile, ret |-> FALSE, notes |-> 0]
    ELSE IF Cardinality(new_candidates) = 1
         THEN [tile  |-> set_value([tile EXCEPT !.candidates = {}],
                                   CHOOSE v \in new_candidates : TRUE),
               ret   |-> TRUE,
               notes |-> SetValueNotes + 1]
         ELSE [tile  |-> [tile EXCEPT !.candidates = new_candidates],
               ret   |-> TRUE,
               notes |-> 1]

\* ---------------------------------------------------------------------------
\* Board
\* ---------------------------------------------------------------------------
Rows == 0 .. (NROWS - 1)

Cols == 0 .. (NCOLS - 1)

Cells == Rows \X Cols

\* Board.__init__, first loop: the grid of fresh tiles
NewTiles == [row \in Rows |-> [col \in Cols |-> NewTile]]

\* Board.__init__: the groups, rows first, then columns, then sub-blocks in
\* row-major block order; a group is the sequence of its tiles' positions
RowGroups == [i \in 1 .. NROWS |-> [j \in 1 .. NCOLS |-> <<i - 1, j - 1>>]]

ColGroups == [i \in 1 .. NCOLS |-> [j \in 1 .. NROWS |-> <<j - 1, i - 1>>]]

BlockGroups ==
    [b \in 1 .. (ROOT * ROOT) |->
        [j \in 1 .. (ROOT * ROOT) |->
            <<(ROOT * ((b - 1) \div ROOT)) + ((j - 1) \div ROOT),
              (ROOT * ((b - 1) % ROOT)) + ((j - 1) % ROOT)>>]]

groups == RowGroups \o ColGroups \o BlockGroups

TileAt(tiles, pos) == tiles[pos[1]][pos[2]]

GroupCells(group) == {group[i] : i \in 1 .. Len(group)}

\* as_list that walks the grid by columns
as_list_by_column(tiles) ==
    [r \in 1 .. NROWS |-> [c \in 1 .. NCOLS |-> tiles[c - 1][r - 1].value]]

\* Board.as_list: one string per row, the join of the row's tile values
as_list(tiles) ==
    [r \in 1 .. NROWS |-> [c \in 1 .. NCOLS |-> tiles[r - 1][c - 1].value]]

\* Board.set_tiles: set_value on every tile from tile_values[row][col]
set_tiles(tiles, tile_values) ==
    [row \in Rows |->
        [col \in Cols |-> set_value(tiles[row][col], tile_values[row + 1][col + 1])]]

\* is_consistent that looks at the rows only
is_consistent_rows(tiles) ==
    \A g \in 1 .. NROWS :
        \A i, j \in 1 .. Len(groups[g]) :
            (i < j /\ TileAt(tiles, groups[g][i]).value # UNKNOWN)
                => TileAt(tiles, groups[g][i]).value # TileAt(tiles, groups[g][j]).value

\* Board.is_consistent: no group holds a symbol twice
is_consistent(tiles) ==
    \A g \in 1 .. Len(groups) :
        \A i, j \in 1 .. Len(groups[g]) :
            (i < j /\ TileAt(tiles, groups[g][i]).value # UNKNOWN)
                => TileAt(tiles, groups[g][i]).value # TileAt(tiles, groups[g][j]).value

\* Board.is_complete
is_complete(tiles) == \A pos \in Cells : TileAt(tiles, pos).value # UNKNOWN

\* Board.min_choice_tile: first UNKNOWN tile, in row-major order, with the
\* least number of candidates
RowMajor(pos) == (pos[1] * NCOLS) + pos[2]

min_choice_tile(tiles) ==
    CHOOSE pos \in Cells :
        /\ TileAt(tiles, pos).value = UNKNOWN
        /\ \A q \in Cells :
              TileAt(tiles, q).value = UNKNOWN =>
                 \/ Cardinality(TileAt(tiles, q).candidates)
                       > Cardinality(TileAt(tiles, pos).candidates)
                 \/ /\ Cardinality(TileAt(tiles, q).candidates)
                          = Cardinality(TileAt(tiles, pos).candidates)
                    /\ RowMajor(pos) <= RowMajor(q)

\* used symbols gathered over the whole board instead of the group
used_symbols_board(tiles, group) ==
    {TileAt(tiles, pos).value : pos \in Cells} \ {UNKNOWN}

\* the symbols already used in a group (naked_single, first inner loop)
used_symbols(tiles, group) ==
    {TileAt(tiles, pos).value : pos \in GroupCells(group)} \ {UNKNOWN}

\* naked_single, second inner loop: remove_candidate on the UNKNOWN tiles of
\* the group, from the i-th on, with the used set computed before the loop
RECURSIVE NakedTiles(_, _, _, _)
NakedTiles(st, group, used, i) ==
    IF i > Len(group) THEN st
    ELSE LET pos == group[i]
             tile == TileAt(st.tiles, pos)
         IN  IF tile.value = UNKNOWN
             THEN LET r == remove_candidate(tile, used) IN
                  NakedTiles([tiles    |-> [st.tiles EXCEPT ![pos[1]][pos[2]] = r.tile],
                              progress |-> st.progress \/ r.ret],
                             group, used, i + 1)
             ELSE NakedTiles(st, group, used, i + 1)

RECURSIVE NakedGroups(_, _)
NakedGroups(st, g) ==
    IF g > Len(groups) THEN st
    ELSE NakedGroups(NakedTiles(st, groups[g], used_symbols(st.tiles, groups[g]), 1),
                     g + 1)

\* Board.naked_single: the board after the pass and the returned progress
naked_single(tiles) == NakedGroups([tiles |-> tiles, progress |-> FALSE], 1)

\* hidden_single, body of "for symbol in leftovers"
HiddenSymbol(st, group, symbol) ==
    LET possible_tiles ==
            {pos \in GroupCells(group) :
                /\ TileAt(st.tiles, pos).value = UNKNOWN
                /\ symbol \in TileAt(st.tiles, pos).candidates}
    IN  IF Cardinality(possible_tiles) = 1
        THEN LET pos == CHOOSE p \in possible_tiles : TRUE IN
             [tiles    |-> [st.tiles EXCEPT ![pos[1]][pos[2]] =
                                set_value(TileAt(st.tiles, pos), symbol)],
              progress |-> TRUE]
        ELSE st

\* "for symbol in leftovers": the set is walked in any order
RECURSIVE HiddenSymbols(_, _, _)
HiddenSymbols(st, group, leftovers) ==
    IF leftovers = {} THEN {st}
    ELSE UNION {HiddenSymbols(HiddenSymbol(st, group, symbol), group,
                              leftovers \ {symbol}) : symbol \in leftovers}

leftover_symbols(tiles, group) ==
    CHOICES \ {TileAt(tiles, pos).value : pos \in GroupCells(group)}

RECURSIVE HiddenGroups(_, _)
HiddenGroups(sts, g) ==
    IF g > Len(groups) THEN sts
    ELSE HiddenGroups(UNION {HiddenSymbols(st, groups[g],
                                           leftover_symbols(st.tiles, groups[g]))
                             : st \in sts},
                      g + 1)

\* Board.hidden_single: the outcomes (board, returned progress) the pass can
\* have, one per way of walking the leftover sets
hidden_single(tiles) == HiddenGroups({[tiles |-> tiles, progress |-> FALSE]}, 1)

\* a round that never reports the end of progress
propagate_round_on(tiles) ==
    LET n == naked_single(tiles) IN
    {[tiles |-> h.tiles, progress |-> TRUE] : h \in hidden_single(n.tiles)}

\* a round that stops at naked_single
propagate_round_naked(tiles) == {naked_single(tiles)}

\* one round of the loop of Board.propagate:
\*     progress = self.naked_single()
\*     progress = progress or self.hidden_single()
\* hidden_single is not called when naked_single made progress
propagate_round(tiles) ==
    LET n == naked_single(tiles) IN
    IF n.progress THEN {n} ELSE hidden_single(n.tiles)

\* ---------------------------------------------------------------------------
\* the puzzles handed to set_tiles
\* ---------------------------------------------------------------------------
Blank == [r \in 1 .. NROWS |-> [c \in 1 .. NCOLS |-> UNKNOWN]]

\* unsolvable, found only by exhausting a guess
SeedDeadEnd == << <<".", ".", ".", ".">>, <<"1", ".", ".", ".">>,
                  <<".", ".", ".", "1">>, <<".", "3", ".", ".">> >>

\* a tile that can take no symbol although no group holds a duplicate
SeedNoCandidate == << <<".", ".", ".", ".">>, <<".", ".", ".", ".">>,
                      <<"2", "1", ".", ".">>, <<".", ".", "2", "4">> >>

\* solvable, with guesses that fail
SeedBacktrack == << <<".", ".", "4", ".">>, <<".", ".", ".", "3">>,
                    <<".", ".", ".", ".">>, <<".", "2", ".", "4">> >>

\* complete and valid
SeedSolved == << <<"1", "2", "3", "4">>, <<"3", "4", "1", "2">>,
                 <<"2", "1", "4", "3">>, <<"4", "3", "2", "1">> >>

\* complete with a duplicate
SeedClash == << <<"1", "2", "3", "4">>, <<"3", "4", "1", "2">>,
                <<"2", "1", "4", "3">>, <<"4", "3", "2", "2">> >>

\* one empty cell
SeedLastCell == << <<"1", "2", "3", "4">>, <<"3", "4", "1", "2">>,
                   <<"2", "1", "4", "3">>, <<"4", "3", "2", ".">> >>

\* a character outside the alphabet
SeedMalformed == << <<"x", "2", ".", ".">>, <<".", ".", ".", ".">>,
                    <<".", ".", ".", ".">>, <<".", ".", ".", "3">> >>

Seeds == {SeedDeadEnd, SeedNoCandidate, SeedBacktrack, SeedSolved, SeedClash,
          SeedLastCell, SeedMalformed}

\* a puzzle with the cells of S erased
Erase(tile_values, S) ==
    [r \in 1 .. NROWS |-> [c \in 1 .. NCOLS |->
        IF <<r - 1, c - 1>> \in S THEN UNKNOWN ELSE tile_values[r][c]]]

\* the puzzles loaded: every seed with at most MaxErased of its cells erased
Inputs ==
    {Erase(seed, S) : seed \in Seeds,
                      S \in {T \in SUBSET Cells : Cardinality(T) <= MaxErased}}

\* ---------------------------------------------------------------------------
\* state
\* ---------------------------------------------------------------------------
VARIABLES
    tiles,   \* Board.tiles: tiles[row][col] = [value, candidates]
    stack,   \* the running calls of propagate() and solve(), innermost last
    done,    \* the solve() call that returned last, until the next step
    last,    \* the top-level call that completed last
    tick,    \* parity of the steps taken by the running call
    tile,    \* a Tile used on its own
    tlast    \* the call made last on that tile

vars == <<tiles, stack, done, last, tick, tile, tlast>>

NoDone == [valid |-> FALSE, ret |-> FALSE, entry |-> NewTiles, saved |-> <<>>,
           guessed |-> FALSE, depth |-> 0]

NoCall == [op |-> "none", value |-> UNKNOWN, used |-> {}, ret |-> FALSE,
           notes |-> 0, raised |-> FALSE, pre |-> NewTile]

\* while propagate() or solve() runs no top-level call is the last completed
Running == [op |-> "running", ret |-> FALSE, pre |-> NewTiles]

Frame(fn, entry) ==
    [fn |-> fn, pc |-> "propagate", entry |-> entry, saved |-> <<>>,
     guess |-> <<0, 0>>, todo |-> {}]

Idle == stack = <<>>

Top == stack[Len(stack)]

Pop == SubSeq(stack, 1, Len(stack) - 1)

SetTop(frame) == [stack EXCEPT ![Len(stack)] = frame]

\* Board(): a grid of UNKNOWN tiles
Init ==
    /\ tiles = NewTiles
    /\ stack = <<>>
    /\ done = NoDone
    /\ last = [op |-> "Board", ret |-> FALSE, pre |-> NewTiles]
    /\ tick = FALSE
    /\ tile = NewTile
    /\ tlast = NoCall

\* ---------------------------------------------------------------------------
\* top-level calls on the board
\* ---------------------------------------------------------------------------
\* board.set_tiles(tile_values), the load of a puzzle.  It overwrites every
\* tile, so the board it leaves does not depend on the board it finds: the
\* puzzle is loaded into the board as constructed, as the main block does.
\* (SetTilesAsList and the restore of solve() call set_tiles on every other
\* board.)
SetTiles(tile_values) ==
    /\ Idle
    /\ last.op = "Board"
    /\ tiles' = set_tiles(tiles, tile_values)
    /\ last' = [op |-> "set_tiles", ret |-> FALSE, pre |-> NewTiles]
    /\ done' = NoDone
    /\ UNCHANGED <<stack, tick, tile, tlast>>

\* board.set_tiles(board.as_list())
SetTilesAsList ==
    /\ Idle
    /\ tiles' = set_tiles(tiles, as_list(tiles))
    /\ last' = [op |-> "round_trip", ret |-> FALSE, pre |-> tiles]
    /\ done' = NoDone
    /\ UNCHANGED <<stack, tick, tile, tlast>>

\* board.naked_single()
NakedSingle ==
    /\ Idle
    /\ LET n == naked_single(tiles) IN
       /\ tiles' = n.tiles
       /\ last' = [op |-> "naked_single", ret |-> n.progress, pre |-> tiles]
    /\ done' = NoDone
    /\ UNCHANGED <<stack, tick, tile, tlast>>

\* board.hidden_single()
HiddenSingle ==
    /\ Idle
    /\ \E h \in hidden_single(tiles) :
          /\ tiles' = h.tiles
          /\ last' = [op |-> "hidden_single", ret |-> h.progress, pre |-> tiles]
    /\ done' = NoDone
    /\ UNCHANGED <<stack, tick, tile, tlast>>

\* board.propagate() is called
PropagateCall ==
    /\ Idle
    /\ stack' = <<Frame("propagate", tiles)>>
    /\ last' = Running
    /\ done' = NoDone
    /\ UNCHANGED <<tiles, tick, tile, tlast>>

\* board.solve() is called
SolveCall ==
    /\ Idle
    /\ stack' = <<Frame("solve", tiles)>>
    /\ last' = Running
    /\ done' = NoDone
    /\ UNCHANGED <<tiles, tick, tile, tlast>>

\* ---------------------------------------------------------------------------
\* propagate() and solve(), step by step
\* ---------------------------------------------------------------------------
\* every step of a running call flips tick; it is FALSE between calls
Ticked == tick' = (stack' # <<>> /\ ~tick)

\* one round of propagate's loop; without progress the loop ends: a
\* top-level propagate() returns, inside solve() the checks come next
PropagateRound ==
    /\ ~Idle
    /\ Top.pc = "propagate"
    /\ \E o \in propagate_round(tiles) :
          /\ tiles' = o.tiles
          /\ IF o.progress
             THEN UNCHANGED <<stack, last>>
             ELSE IF Top.fn = "propagate"
                  THEN /\ stack' = Pop
                       /\ last' = [op |-> "propagate", ret |-> FALSE, pre |-> Top.entry]
                  ELSE /\ stack' = SetTop([Top EXCEPT !.pc = "check"])
                       /\ UNCHANGED last
    /\ done' = NoDone
    /\ Ticked
    /\ UNCHANGED <<tile, tlast>>

\* the solve() call on top returns ret
Return(ret, guessed) ==
    /\ stack' = Pop
    /\ done' = [valid |-> TRUE, ret |-> ret, entry |-> Top.entry,
                saved |-> Top.saved, guessed |-> guessed, depth |-> Len(stack) - 1]
    /\ last' = IF Len(stack) = 1
               THEN [op |-> "solve", ret |-> ret, pre |-> Top.entry]
               ELSE last

\* solve() after propagate(): complete, inconsistent, or ready to guess
SolveCheck ==
    /\ ~Idle
    /\ Top.pc = "check"
    /\ IF is_complete(tiles)
       THEN Return(is_consistent(tiles), FALSE)
       ELSE IF ~is_consistent(tiles)
            THEN Return(FALSE, FALSE)
            ELSE /\ stack' = SetTop([Top EXCEPT
                                        !.pc = "loop",
                                        !.saved = as_list(tiles),
                                        !.guess = min_choice_tile(tiles),
                                        !.todo = TileAt(tiles, min_choice_tile(tiles)).candidates])
                 /\ done' = NoDone
                 /\ UNCHANGED last
    /\ Ticked
    /\ UNCHANGED <<tiles, tile, tlast>>

\* a guess loop that gives up after its first candidate
SolveGuessOnce ==
    /\ ~Idle
    /\ Top.pc = "loop"
    /\ \E i \in Top.todo :
          /\ tiles' = [tiles EXCEPT ![Top.guess[1]][Top.guess[2]] =
                          set_value(TileAt(tiles, Top.guess), i)]
          /\ stack' = Append(SetTop([Top EXCEPT !.pc = "wait", !.todo = {}]),
                             Frame("solve", tiles'))
    /\ done' = NoDone
    /\ Ticked
    /\ UNCHANGED <<last, tile, tlast>>

\* "for i in a_guess.candidates": the next candidate is set and solve() is
\* called on the result
SolveGuess ==
    /\ ~Idle
    /\ Top.pc = "loop"
    /\ \E i \in Top.todo :
          /\ tiles' = [tiles EXCEPT ![Top.guess[1]][Top.guess[2]] =
                          set_value(TileAt(tiles, Top.guess), i)]
          /\ stack' = Append(SetTop([Top EXCEPT !.pc = "wait", !.todo = Top.todo \ {i}]),
                             Frame("solve", tiles'))
    /\ done' = NoDone
    /\ Ticked
    /\ UNCHANGED <<last, tile, tlast>>

\* a failed recursive call after which the snapshot is not restored
SolveResumeNoRestore ==
    /\ ~Idle
    /\ Top.pc = "wait"
    /\ done.valid
    /\ IF done.ret
       THEN /\ Return(TRUE, TRUE)
            /\ UNCHANGED tiles
       ELSE /\ stack' = SetTop([Top EXCEPT !.pc = "loop"])
            /\ done' = NoDone
            /\ UNCHANGED <<tiles, last>>
    /\ Ticked
    /\ UNCHANGED <<tile, tlast>>

\* the recursive call has returned: success is passed up, failure restores
\* the snapshot
SolveResume ==
    /\ ~Idle
    /\ Top.pc = "wait"
    /\ done.valid
    /\ IF done.ret
       THEN /\ Return(TRUE, TRUE)
            /\ UNCHANGED tiles
       ELSE /\ tiles' = set_tiles(tiles, Top.saved)
            /\ stack' = SetTop([Top EXCEPT !.pc = "loop"])
            /\ done' = NoDone
            /\ UNCHANGED last
    /\ Ticked
    /\ UNCHANGED <<tile, tlast>>

\* "Tried all the possibilities; none worked!"
SolveExhausted ==
    /\ ~Idle
    /\ Top.pc = "loop"
    /\ Top.todo = {}
    /\ Return(FALSE, TRUE)
    /\ Ticked
    /\ UNCHANGED <<tiles, tile, tlast>>

\* ---------------------------------------------------------------------------
\* calls on a single tile
\* ---------------------------------------------------------------------------
\* tile.set_value(value); the method has no raise statement
TileSetValue(value) ==
    /\ tile' = set_value(tile, value)
    /\ tlast' = [op |-> "set_value", value |-> value, used |-> {}, ret |-> FALSE,
                 notes |-> SetValueNotes, raised |-> FALSE, pre |-> tile]
    /\ UNCHANGED <<tiles, stack, done, last, tick>>

\* tile.remove_candidate(used_values)
TileRemoveCandidate(used_values) ==
    /\ LET r == remove_candidate(tile, used_values) IN
       /\ tile' = r.tile
       /\ tlast' = [op |-> "remove_candidate", value |-> UNKNOWN, used |-> used_values,
                    ret |-> r.ret, notes |-> r.notes, raised |-> FALSE, pre |-> tile]
    /\ UNCHANGED <<tiles, stack, done, last, tick>>

TileNext ==
    \/ \E value \in CHOICES \cup {UNKNOWN} \cup BadValues : TileSetValue(value)
    \/ \E used_values \in SUBSET (CHOICES \cup BadValues) : TileRemoveCandidate(used_values)

TileSpec == Init /\ [][TileNext]_vars

\* a step of the running call
SolveStep ==
    \/ PropagateRound
    \/ SolveCheck
    \/ SolveGuess
    \/ SolveResume
    \/ SolveExhausted

Next ==
    \/ \E tile_values \in Inputs : SetTiles(tile_values)
    \/ SetTilesAsList
    \/ NakedSingle
    \/ HiddenSingle
    \/ PropagateCall
    \/ SolveCall
    \/ SolveStep

Spec == Init /\ [][Next]_vars

\* the program is single-threaded and synchronous: a call that has been made
\* runs on, its next step is always taken
Advance == ~Idle /\ tick' = ~tick

LiveSpec == Spec /\ WF_tick(Advance)

\* ---------------------------------------------------------------------------
\* properties of a single tile (TileSpec)
\* ---------------------------------------------------------------------------
\* C6: after any calls of set_value and remove_candidate, with any
\* arguments, a tile that holds a symbol has exactly that symbol as its
\* candidate set
C6_ValueIsOnlyCandidate ==
    tile.value \in CHOICES => tile.candidates = {tile.value}

\* C8: set_value with a value that is neither UNKNOWN nor a symbol ends in
\* an error and leaves the tile's value and candidates as they were
C8_MalformedRejected ==
    (tlast.op = "set_value" /\ tlast.value \notin (CHOICES \cup {UNKNOWN}))
        => (tlast.raised /\ tile = tlast.pre)

\* C10: remove_candidate(used) returns true exactly when a symbol of used
\* was a candidate; returning false it changes nothing and notifies nobody;
\* when the removal leaves one candidate the tile holds it on return
C10_RemoveCandidate ==
    tlast.op = "remove_candidate" =>
        /\ tlast.ret = (tlast.pre.candidates \cap tlast.used # {})
        /\ ~tlast.ret => (tile = tlast.pre /\ tlast.notes = 0)
        /\ \A v \in CHOICES :
              (tlast.pre.candidates \ tlast.used) = {v} => tile.value = v

\* a removal that left one candidate of several
C10_Witness ==
    /\ tlast.op = "remove_candidate"
    /\ tlast.ret
    /\ Cardinality(tlast.pre.candidates) > 2
    /\ Cardinality(tlast.pre.candidates \ tlast.used) = 1
    /\ tile.value \in CHOICES

\* ---------------------------------------------------------------------------
\* what a solution is, independently of the solver
\* ---------------------------------------------------------------------------
\* the cells that share a row, a column or a sub-block with pos
Peers(pos) ==
    {q \in Cells :
        /\ q # pos
        /\ \/ q[1] = pos[1]
           \/ q[2] = pos[2]
           \/ (q[1] \div ROOT = pos[1] \div ROOT /\ q[2] \div ROOT = pos[2] \div ROOT)}

ValueAt(grid, pos) == grid[pos[1] + 1][pos[2] + 1]

\* no two filled cells that share a group hold the same symbol
NoClash(grid) ==
    \A pos \in Cells :
        ValueAt(grid, pos) # UNKNOWN =>
            \A q \in Peers(pos) : ValueAt(grid, q) # ValueAt(grid, pos)

CellOf(k) == <<k \div NCOLS, k % NCOLS>>

IndexOf(pos) == pos[1] * NCOLS + pos[2]

\* the rows of the grid from the r-th on, one after the other
RECURSIVE Flatten(_, _)
Flatten(grid, r) ==
    IF r > NROWS THEN <<>> ELSE grid[r] \o Flatten(grid, r + 1)

\* the cells from the k-th on (row-major) can be filled without a clash
RECURSIVE Fillable(_, _)
Fillable(flat, k) ==
    IF k = NROWS * NCOLS THEN TRUE
    ELSE IF flat[k + 1] # UNKNOWN THEN Fillable(flat, k + 1)
    ELSE \E v \in CHOICES :
            /\ \A q \in Peers(CellOf(k)) : flat[IndexOf(q) + 1] # v
            /\ Fillable([flat EXCEPT ![k + 1] = v], k + 1)

\* some assignment of symbols to the UNKNOWN cells makes the grid complete
\* with every symbol once in every group
Solvable(grid) == NoClash(grid) /\ Fillable(Flatten(grid, 1), 0)

Unknowns(grid) == Cardinality({pos \in Cells : ValueAt(grid, pos) = UNKNOWN})

\* ---------------------------------------------------------------------------
\* properties of the board (Spec, LiveSpec)
\* ---------------------------------------------------------------------------
\* C1: when solve() returns true no tile is UNKNOWN, every group holds every
\* symbol exactly once, and every tile that held a symbol at the call holds
\* the same symbol
C1_SolvedIsSolution ==
    (done.valid /\ done.ret) =>
        /\ \A pos \in Cells : TileAt(tiles, pos).value \in CHOICES
        /\ \A g \in 1 .. Len(groups) : \A v \in CHOICES :
              Cardinality({i \in 1 .. Len(groups[g]) :
                              TileAt(tiles, groups[g][i]).value = v}) = 1
        /\ \A pos \in Cells :
              TileAt(done.entry, pos).value # UNKNOWN
                 => TileAt(tiles, pos).value = TileAt(done.entry, pos).value

\* the top-level solve() has returned true after guessing, on a puzzle with
\* given and open cells
C1_Witness ==
    /\ Idle
    /\ last.op = "solve"
    /\ last.ret
    /\ done.guessed
    /\ Unknowns(as_list(last.pre)) > 2
    /\ Unknowns(as_list(last.pre)) < NROWS * NCOLS

\* C2: solve() returns true exactly when the puzzle it was called on has a
\* solution; it returns false only when there is none
C2_Exhaustive ==
    done.valid => (done.ret <=> Solvable(as_list(done.entry)))

\* the top-level solve() has returned false after trying every candidate of
\* its guess, on a puzzle without duplicates
C2_Witness ==
    /\ Idle
    /\ last.op = "solve"
    /\ ~last.ret
    /\ done.guessed
    /\ is_consistent(last.pre)

\* C3 as stated: when a call of solve() returns false every tile's value is
\* what it was when that call was entered
C3_RestoresEntry ==
    (done.valid /\ ~done.ret) => as_list(tiles) = as_list(done.entry)

\* C3 amended: when a call of solve() returns false after its guess loop,
\* every tile's value is the one of the snapshot the call took after its own
\* propagate(); in every failing call the tiles filled at entry keep their
\* symbol
C3_RestoresSnapshot ==
    (done.valid /\ ~done.ret) =>
        /\ done.guessed => as_list(tiles) = done.saved
        /\ \A pos \in Cells :
              TileAt(done.entry, pos).value # UNKNOWN
                 => TileAt(tiles, pos).value = TileAt(done.entry, pos).value

\* a call failed after its guesses and left values its propagate() filled in
C3_Witness ==
    /\ done.valid
    /\ ~done.ret
    /\ done.guessed
    /\ as_list(tiles) = done.saved
    /\ as_list(tiles) # as_list(done.entry)

\* C4 as stated: set_tiles(as_list()) leaves every tile's value and
\* candidate set unchanged
C4_RoundTripIdentity ==
    last.op = "round_trip" => tiles = last.pre

\* C4 amended: set_tiles(as_list()) leaves every tile's value unchanged and
\* the candidates of every tile that holds a symbol; the candidates of an
\* UNKNOWN tile become the full alphabet
C4_RoundTripValues ==
    last.op = "round_trip" =>
        \A pos \in Cells :
            /\ TileAt(tiles, pos).value = TileAt(last.pre, pos).value
            /\ TileAt(tiles, pos).value # UNKNOWN
                  => TileAt(tiles, pos).candidates = TileAt(last.pre, pos).candidates
            /\ TileAt(tiles, pos).value = UNKNOWN
                  => TileAt(tiles, pos).candidates = CHOICES

\* the round trip was made on a board with filled tiles in different rows
\* and columns and an UNKNOWN tile that had lost candidates
C4_Witness ==
    /\ last.op = "round_trip"
    /\ \E pos \in Cells :
          /\ TileAt(last.pre, pos).value = UNKNOWN
          /\ TileAt(last.pre, pos).candidates # CHOICES
    /\ \E pos \in Cells :
          /\ TileAt(last.pre, pos).value # UNKNOWN
          /\ TileAt(last.pre, pos).value # TileAt(last.pre, <<pos[2], pos[1]>>).value

PropagateReturned ==
    \/ Idle /\ last.op = "propagate"
    \/ ~Idle /\ Top.pc = "check"

\* C5: once propagate() has returned, naked_single() and hidden_single()
\* return false and change nothing, and one more propagate() changes nothing
C5_FixedPoint ==
    PropagateReturned =>
        /\ naked_single(tiles) = [tiles |-> tiles, progress |-> FALSE]
        /\ hidden_single(tiles) = {[tiles |-> tiles, progress |-> FALSE]}
        /\ propagate_round(tiles) = {[tiles |-> tiles, progress |-> FALSE]}

\* propagate() has returned after changing the board, which is not complete
C5_Witness ==
    /\ Idle
    /\ last.op = "propagate"
    /\ tiles # last.pre
    /\ ~is_complete(tiles)

\* C7 as stated: while is_consistent() is true no tile has an empty
\* candidate set
C7_ConsistentNoEmpty ==
    is_consistent(tiles) => \A pos \in Cells : TileAt(tiles, pos).candidates # {}

\* C7 amended: while the board's values can be completed to a solution no
\* tile has an empty candidate set; only an UNKNOWN tile ever has one
C7_SolvableNoEmpty ==
    \A pos \in Cells :
        TileAt(tiles, pos).candidates = {} =>
            /\ TileAt(tiles, pos).value = UNKNOWN
            /\ ~Solvable(as_list(tiles))

\* naked_single has removed candidates on a board that has a solution
C7_Witness ==
    /\ Idle
    /\ last.op = "naked_single"
    /\ last.ret
    /\ Solvable(as_list(tiles))
    /\ \E pos \in Cells : Cardinality(TileAt(tiles, pos).candidates) = 2

\* the recursive solve() calls below the top-level one are never more than
\* the UNKNOWN tiles the board had when the top-level call started
DepthBounded ==
    ~Idle => Len(stack) - 1 <= Unknowns(as_list(stack[1].entry))

\* a running call always has a next step
CanStep ==
    ~Idle =>
        \/ Top.pc \in {"propagate", "check", "loop"}
        \/ Top.pc = "wait" /\ done.valid

\* C9: propagate() and solve() terminate: every call made returns, no call
\* is ever stuck, and the recursion of solve() is no deeper than the number
\* of UNKNOWN tiles at the start
C9_Terminates == []DepthBounded /\ []CanStep /\ (~Idle ~> Idle)

\* three solve() calls are nested below the top-level one
C9_Witness ==
    /\ Len(stack) = 4
    /\ Top.fn = "solve"
    /\ Top.pc = "check"

====
